---- MODULE Spec2Model ----
(***************************************************************************)
(* A model of pygame/draw.py: the shape operations rect, polygon, line and *)
(* lines drawing into one surface, and the helpers _get_color, _get_rect,  *)
(* _endpoint_code and _clip_line they are built from.                      *)
(*                                                                         *)
(* A drawing call is one action.  What the call did is kept as a trace of  *)
(* the pixel accesses it made, in order: each call of the surface's fill   *)
(* primitive (SDL_FillRect) with the rectangle passed, and each write of   *)
(* the raw pixel buffer with the index written.                            *)
(*                                                                         *)
(* Python floats: _clip_line and polygon compute slopes with float().      *)
(* They are modelled by exact rationals (numerator and denominator kept    *)
(* apart) and int() by truncation toward zero.  On the coordinate ranges   *)
(* of this model (differences of at most 5) the float results and the      *)
(* exact ones have the same integer part wherever int() is applied.        *)
(***************************************************************************)
EXTENDS Integers, Sequences, FiniteSets, TLC

\* ------------------------------------------------------------------ bounds
SurfSize == 3        \* the surface is SurfSize x SurfSize pixels
MaxWidth == 2        \* width arguments range over 0 .. MaxWidth
MaxPoints == 3       \* point lists have at most MaxPoints points

\* ------------------------------------------------------------ program data
_LEFT == 1
_RIGHT == 2
_TOP == 4
_BOTTOM == 8

VARIABLES
    clip,       \* surface._surf.clip_rect
    bpp,        \* surface._surf.format.BytesPerPixel
    pixels,     \* surface._surf.pixels: raw index -> pixel value
    locked,     \* the surface's pixel-access lock count
    phase,      \* "idle" before the first call, then "once", then "twice"
    call,       \* the arguments of the last call
    entry,      \* the pixel buffer when the last call was entered
    trace,      \* the pixel accesses the last call made, in order
    ret,        \* what the last call returned
    err,        \* the exception the last call ended with, or "none"
    cl,         \* the _clip_line loop: its locals and its position
    argrect     \* the caller's rect object once the last call has returned

vars == <<clip, bpp, pixels, locked, phase, call, entry, trace, ret, err, cl,
          argrect>>

\* --------------------------------------------------------------- arithmetic
Abs(n) == IF n < 0 THEN -n ELSE n
Min(a, b) == IF a < b THEN a ELSE b
Max(a, b) == IF a > b THEN a ELSE b

\* int(n / d) for d # 0: Python's int() truncates toward zero
TruncDiv(n, d) ==
    LET q == Abs(n) \div Abs(d)
    IN  IF (n < 0) = (d < 0) THEN q ELSE -q

\* ------------------------------------------------------------------ surface
SurfW == SurfSize
SurfH == SurfSize

\* SDL rounds the byte length of a row up to a multiple of four
PitchBytes(b) == ((SurfW * b + 3) \div 4) * 4

\* surface._surf.pitch / surface._surf.format.BytesPerPixel
Pitch(b) == PitchBytes(b) \div b

BufferIndexes(b) == 0 .. (Pitch(b) * SurfH - 1)

Rect4(x, y, w, h) == [x |-> x, y |-> y, w |-> w, h |-> h]

NoRect == [some |-> FALSE, x |-> 0, y |-> 0, w |-> 0, h |-> 0]
SomeRect(x, y, w, h) == [some |-> TRUE, x |-> x, y |-> y, w |-> w, h |-> h]

InRect(x, y, r) ==
    /\ r.x <= x /\ x < r.x + r.w
    /\ r.y <= y /\ y < r.y + r.h

\* The pixels SDL_FillRect(surf, r, color) writes: r cut to the clip rectangle
FillPixels(r, c) ==
    { <<x, y>> \in (c.x .. (c.x + c.w - 1)) \X (c.y .. (c.y + c.h - 1)) :
        InRect(x, y, r) }

\* The pixel a raw index addresses
PixelOf(idx, b) == <<idx % Pitch(b), idx \div Pitch(b)>>

\* ------------------------------------------------------------------- events
\* v is the pixel value written, held the lock count at the time of the access
FillEv(r, v, lk) == [kind |-> "fill", r |-> r, idx |-> 0, v |-> v, held |-> lk]
RawEv(i, v, lk) ==
    [kind |-> "raw", r |-> Rect4(0, 0, 0, 0), idx |-> i, v |-> v, held |-> lk]

Outcome(t, r, e) == [trace |-> t, ret |-> r, err |-> e]

\* -------------------------------------------------------------- _get_color
\* A color argument is an RGB(A) tuple, an int already mapped, or anything else
TupleColor == [type |-> "tuple", v |-> 1]
IntColor(v) == [type |-> "int", v |-> v]
BadColor == [type |-> "str", v |-> 0]

ColorOk(color) == color.type \in {"tuple", "int"}
_get_color(color) == IntColor(color.v)

\* ---------------------------------------------------------- _endpoint_code
HasBit(code, bit) == (code \div bit) % 2 = 1

\* code1 & code2 != 0
CodesMeet(code1, code2) ==
    \E bit \in {_LEFT, _RIGHT, _TOP, _BOTTOM} : HasBit(code1, bit) /\ HasBit(code2, bit)

EndpointCodeFlipped(x, y, l, r, t, b) ==
      (IF x < l THEN _LEFT ELSE 0)
    + (IF y < t THEN _BOTTOM ELSE 0)
    + (IF x > r THEN _RIGHT ELSE 0)
    + (IF y > b THEN _TOP ELSE 0)

EndpointCodeRightClosed(x, y, l, r, t, b) ==
      (IF x < l THEN _LEFT ELSE 0)
    + (IF y < t THEN _TOP ELSE 0)
    + (IF x >= r THEN _RIGHT ELSE 0)
    + (IF y > b THEN _BOTTOM ELSE 0)

_endpoint_code(x, y, l, r, t, b) ==
      (IF x < l THEN _LEFT ELSE 0)
    + (IF y < t THEN _TOP ELSE 0)
    + (IF x > r THEN _RIGHT ELSE 0)
    + (IF y > b THEN _BOTTOM ELSE 0)

\* ---------------------------------------------------------------- _clip_line
\* The locals of _clip_line.  pc is "loop" at the head of the while loop,
\* "segment" after return x1, y1, x2, y2, "none" after the all-None return
\* and "raised" after a ZeroDivisionError; arg keeps the segment passed in.
ClipState(x1, y1, x2, y2, left, right, top, bottom) ==
    [pc |-> "loop", x1 |-> x1, y1 |-> y1, x2 |-> x2, y2 |-> y2,
     left |-> left, right |-> right, top |-> top, bottom |-> bottom,
     arg |-> <<x1, y1, x2, y2>>]

ClipIdle == [ClipState(0, 0, 0, 0, 0, 0, 0, 0) EXCEPT !.pc = "idle"]

\* One pass through the body of the while loop
ClipIter(s) ==
    LET code1 == _endpoint_code(s.x1, s.y1, s.left, s.right, s.top, s.bottom)
        code2 == _endpoint_code(s.x2, s.y2, s.left, s.right, s.top, s.bottom)
    IN  IF code1 = 0 /\ code2 = 0 THEN [s EXCEPT !.pc = "segment"]
        ELSE IF CodesMeet(code1, code2) THEN [s EXCEPT !.pc = "none"]
        ELSE
          LET swap == code1 = 0
              ax   == IF swap THEN s.x2 ELSE s.x1
              ay   == IF swap THEN s.y2 ELSE s.y1
              x2   == IF swap THEN s.x1 ELSE s.x2
              y2   == IF swap THEN s.y1 ELSE s.y2
              c1   == IF swap THEN code2 ELSE code1
              \* m = (y2 - y1) / float(x2 - x1), or 1.0, as mnum / mden
              mnum == IF ax # x2 THEN y2 - ay ELSE 1
              mden == IF ax # x2 THEN x2 - ax ELSE 1
              \* if code1 & _LEFT
              by   == IF HasBit(c1, _LEFT)
                        THEN ay + TruncDiv((s.left - ax) * mnum, mden) ELSE ay
              bx   == IF HasBit(c1, _LEFT) THEN s.left ELSE ax
              \* if code1 & _RIGHT
              cy   == IF HasBit(c1, _RIGHT)
                        THEN by + TruncDiv((s.right - bx) * mnum, mden) ELSE by
              cx   == IF HasBit(c1, _RIGHT) THEN s.right ELSE bx
              \* if code1 & _BOTTOM
              divB == HasBit(c1, _BOTTOM) /\ cx # x2
              dx   == IF divB /\ mnum # 0
                        THEN cx + TruncDiv((s.bottom - cy) * mden, mnum) ELSE cx
              dy   == IF HasBit(c1, _BOTTOM) THEN s.bottom ELSE cy
              \* if code1 & _TOP
              divT == HasBit(c1, _TOP) /\ dx # x2
              ex   == IF divT /\ mnum # 0
                        THEN dx + TruncDiv((s.top - dy) * mden, mnum) ELSE dx
              ey   == IF HasBit(c1, _TOP) THEN s.top ELSE dy
          IN  IF (divB \/ divT) /\ mnum = 0
                THEN [s EXCEPT !.pc = "raised"]
                ELSE [s EXCEPT !.x1 = ex, !.y1 = ey, !.x2 = x2, !.y2 = y2]

RECURSIVE ClipRun(_)
ClipRun(s) == IF s.pc = "loop" THEN ClipRun(ClipIter(s)) ELSE s

_clip_line(x1, y1, x2, y2, left, right, top, bottom) ==
    ClipRun(ClipState(x1, y1, x2, y2, left, right, top, bottom))

\* --------------------------------------------------------------------- line
\* One outcome after another; an exception ends the call where it is raised
Then(o1, o2) ==
    IF o1.err # "none" THEN o1
    ELSE Outcome(o1.trace \o o2.trace, o2.ret, o2.err)

\* The while loop of the thin-line pixel walk: the raw indexes written
RECURSIVE WalkFrom(_, _, _, _, _, _, _)
WalkFrom(x, y, pixel, dx, dy, incx, incy) ==
    IF ~(x < dx) THEN <<>>
    ELSE LET ya    == y + dy
             carry == ya > dx
         IN  <<pixel>> \o WalkFrom(x + 1,
                                   IF carry THEN ya - dx ELSE ya,
                                   (IF carry THEN pixel + incy ELSE pixel) + incx,
                                   dx, dy, incx, incy)

\* The set-up of the walk from the clipped endpoints
ThinWalk(x1, y1, x2, y2) ==
    LET pitch == Pitch(bpp)
        signx == IF x2 - x1 < 0 THEN -1 ELSE 1
        signy == IF y2 - y1 < 0 THEN -1 ELSE 1
        dx    == signx * (x2 - x1) + 1
        dy    == signy * (y2 - y1) + 1
        pixel == y1 * pitch + x1
        incx  == signx
        incy  == signy * pitch
    IN  IF dx < dy THEN WalkFrom(0, 0, pixel, dy, dx, incy, incx)
                   ELSE WalkFrom(0, 0, pixel, dx, dy, incx, incy)

\* The clip box handed to _clip_line: its right and bottom sides are inclusive
ClipRightOpen(c) == c.x + c.w
ClipRight(c) == c.x + c.w - 1
ClipBottom(c) == c.y + c.h - 1

\* The else branch of line: width 1, neither vertical nor horizontal
ThinLine(color, sp, ep) ==
    IF bpp = 3 THEN Outcome(<<>>, NoRect, "NotImplementedError")
    ELSE LET s == _clip_line(sp[1], sp[2], ep[1], ep[2],
                             clip.x, ClipRight(clip), clip.y, ClipBottom(clip))
         IN  IF s.pc # "segment" THEN Outcome(<<>>, NoRect, "none")
             ELSE LET w == ThinWalk(s.x1, s.y1, s.x2, s.y2)
                  IN  Outcome([i \in 1 .. Len(w) |-> RawEv(w[i], color.v, locked)],
                              NoRect, "none")

RECURSIVE ThickLine(_, _, _, _, _, _)
RECURSIVE line(_, _, _, _)

\* for i in range(width): line(surface, color, (x1, y1), (x2, y2), 1), with n
\* passes of the loop left
ThickLine(color, p, q, xinc, yinc, n) ==
    IF n = 0 THEN Outcome(<<>>, NoRect, "none")
    ELSE Then(line(color, p, q, 1),
              ThickLine(color, <<p[1] + xinc, p[2] + yinc>>,
                        <<q[1] + xinc, q[2] + yinc>>, xinc, yinc, n - 1))

\* The rectangle filled for a vertical line, and for a horizontal one
VerticalRectInclusive(start_pos, end_pos, width) ==
    LET y1 == Min(start_pos[2], end_pos[2])
        y2 == Max(start_pos[2], end_pos[2])
    IN  Rect4(start_pos[1] - width \div 2, y1, width, y2 - y1 + 1)

VerticalRect(start_pos, end_pos, width) ==
    LET y1 == Min(start_pos[2], end_pos[2])
        y2 == Max(start_pos[2], end_pos[2])
    IN  Rect4(start_pos[1] - width \div 2, y1, width, y2 - y1)

HorizontalRect(start_pos, end_pos, width) ==
    LET x1 == Min(start_pos[1], end_pos[1])
        x2 == Max(start_pos[1], end_pos[1])
    IN  Rect4(x1, start_pos[2] - width \div 2, x2 - x1, width)

line(color, start_pos, end_pos, width) ==
    IF width < 1 THEN Outcome(<<>>, NoRect, "none")
    ELSE IF ~ColorOk(color) THEN Outcome(<<>>, NoRect, "invalid color argument")
    ELSE
      LET c == _get_color(color)
      IN  IF start_pos[1] = end_pos[1] THEN
            \* Vertical
            Outcome(<<FillEv(VerticalRect(start_pos, end_pos, width), c.v, locked)>>,
                    NoRect, "none")
          ELSE IF start_pos[2] = end_pos[2] THEN
            \* Horizontal
            Outcome(<<FillEv(HorizontalRect(start_pos, end_pos, width), c.v, locked)>>,
                    NoRect, "none")
          ELSE IF width > 1 THEN
            LET xinc == IF Abs(end_pos[1] - start_pos[1]) > Abs(end_pos[2] - start_pos[2])
                          THEN 0 ELSE 1
                yinc == 1 - xinc
                x1 == start_pos[1] - (width * xinc) \div 2
                y1 == start_pos[2] - (width * yinc) \div 2
                x2 == end_pos[1] - (width * xinc) \div 2
                y2 == end_pos[2] - (width * yinc) \div 2
            IN  ThickLine(c, <<x1, y1>>, <<x2, y2>>, xinc, yinc, width)
          ELSE ThinLine(c, start_pos, end_pos)

\* -------------------------------------------------------------------- lines
\* for point in pointlist[1:]: line(surface, color, last, point, width), from
\* the segment that starts at pointlist[i] on
RECURSIVE Segments(_, _, _, _)
Segments(color, pointlist, i, width) ==
    IF i >= Len(pointlist) THEN Outcome(<<>>, NoRect, "none")
    ELSE Then(line(color, pointlist[i], pointlist[i + 1], width),
              Segments(color, pointlist, i + 1, width))

\* len(pointlist) < 2
TooFewForLinesOffByOne(pointlist) == Len(pointlist) < 1
TooFewForLines(pointlist) == Len(pointlist) < 2

lines(color, closed, pointlist, width) ==
    IF width < 1 THEN Outcome(<<>>, NoRect, "none")
    ELSE IF ~ColorOk(color) THEN Outcome(<<>>, NoRect, "invalid color argument")
    ELSE IF TooFewForLines(pointlist) THEN Outcome(<<>>, NoRect, "ValueError")
    ELSE LET c == _get_color(color)
         IN  Then(Segments(c, pointlist, 1, width),
                  IF closed
                    THEN line(c, pointlist[Len(pointlist)], pointlist[1], width)
                    ELSE Outcome(<<>>, NoRect, "none"))

\* --------------------------------------------------------------------- rect
\* Rect.normalize(): a negative width or height is flipped into the origin
Normalize(r) ==
    Rect4(IF r.w < 0 THEN r.x + r.w ELSE r.x,
          IF r.h < 0 THEN r.y + r.h ELSE r.y,
          Abs(r.w), Abs(r.h))

_get_rect(r) == Normalize(r)

\* rect = copy(rect): normalize() works on the copy, and the object the caller
\* passed stays as it was
CallerRect(r) == r

\* hw = width / 2
HalfWidthUp(width) == (width + 1) \div 2
HalfWidth(width) == width \div 2

rect(color, rectArg, width) ==
    IF ~ColorOk(color) THEN Outcome(<<>>, NoRect, "invalid color argument")
    ELSE
      LET c == _get_color(color)
          r == _get_rect(rectArg)
      IN  IF width = 0 THEN
            Outcome(<<FillEv(r, c.v, locked)>>, SomeRect(r.x, r.y, r.w, r.h), "none")
          ELSE
            LET hw == HalfWidth(width)
            IN  Outcome(<< FillEv(Rect4(r.x, r.y - hw, r.w, width), c.v, locked),
                           FillEv(Rect4(r.x, r.y - hw + r.h, r.w, width), c.v, locked),
                           FillEv(Rect4(r.x - hw, r.y, width, r.h + 1), c.v, locked),
                           FillEv(Rect4(r.x - hw + r.w, r.y, width, r.h + 1), c.v, locked) >>,
                        SomeRect(r.x, r.y, r.w, r.h), "none")

\* ------------------------------------------------------------------ polygon
\* An edge [x, y_low, y_high, dx/dy] of the edge list.  The float e[0] is
\* kept as the rational xn / dy and the float e[3] as dx / dy, with dy > 0.
Edge(x, lo, hi, dx, dy) == [xn |-> x * dy, lo |-> lo, hi |-> hi, dx |-> dx, dy |-> dy]

\* The edge the loop appends for the side p -> q, which is not horizontal
EdgeOf(p, q) ==
    IF q[2] > p[2] THEN Edge(p[1], p[2], q[2], q[1] - p[1], q[2] - p[2])
                   ELSE Edge(q[1], q[2], p[2], p[1] - q[1], p[2] - q[2])

\* The point after pointlist[i] in pointlist[1:] + [pointlist[0]]
NextPoint(pointlist, i) == pointlist[(i % Len(pointlist)) + 1]

\* The edge list after the sides that start at pointlist[i] and later
RECURSIVE EdgesFrom(_, _)
EdgesFrom(pointlist, i) ==
    IF i > Len(pointlist) THEN <<>>
    ELSE LET p == pointlist[i]
             q == NextPoint(pointlist, i)
         IN  (IF q[2] # p[2] THEN <<EdgeOf(p, q)>> ELSE <<>>)
             \o EdgesFrom(pointlist, i + 1)

SetMin(S) == CHOOSE m \in S : \A n \in S : m <= n
SetMax(S) == CHOOSE m \in S : \A n \in S : m >= n

\* int(e[0])
EdgeX(e) == TruncDiv(e.xn, e.dy)

\* cmp(a[0], b[0]) < 0
EdgeBefore(a, b) == a.xn * b.dy < b.xn * a.dy

\* list.sort is stable: an index goes after every index whose edge is not
\* to the right of its own
RECURSIVE InsertSorted(_, _, _)
InsertSorted(edges, sorted, i) ==
    IF sorted = <<>> THEN <<i>>
    ELSE IF EdgeBefore(edges[i], edges[Head(sorted)]) THEN <<i>> \o sorted
    ELSE <<Head(sorted)>> \o InsertSorted(edges, Tail(sorted), i)

\* y >= e[1] and y < e[2]
EdgeActiveClosed(e, y) == y >= e.lo /\ y <= e.hi
EdgeActive(e, y) == y >= e.lo /\ y < e.hi

\* scan_edges for scanline y, as indexes into the edge list, sorted
RECURSIVE ScanEdges(_, _, _, _)
ScanEdges(edges, y, sorted, i) ==
    IF i > Len(edges) THEN sorted
    ELSE ScanEdges(edges, y,
                   IF EdgeActive(edges[i], y)
                     THEN InsertSorted(edges, sorted, i) ELSE sorted,
                   i + 1)

\* The fills of one scanline: one per pair of scan edges
SpanFills(edges, scan, y, c) ==
    [j \in 1 .. (Len(scan) \div 2) |->
        LET a == edges[scan[2 * j - 1]]
            b == edges[scan[2 * j]]
        IN  FillEv(Rect4(EdgeX(a), y, EdgeX(b) - EdgeX(a), 1), c.v, locked)]

\* scan_edges[i][0] += scan_edges[i][3], for every scan edge
Advance(edges, scan) ==
    [i \in 1 .. Len(edges) |->
        IF \E j \in 1 .. Len(scan) : scan[j] = i
          THEN [edges[i] EXCEPT !.xn = @ + edges[i].dx] ELSE edges[i]]

\* for y in range(miny, maxy), from scanline y on
RECURSIVE Sweep(_, _, _, _)
Sweep(edges, y, maxy, c) ==
    IF y >= maxy THEN Outcome(<<>>, NoRect, "none")
    ELSE LET scan == ScanEdges(edges, y, <<>>, 1)
         IN  IF Len(scan) % 2 # 0 THEN Outcome(<<>>, NoRect, "AssertionError")
             ELSE Then(Outcome(SpanFills(edges, scan, y, c), NoRect, "none"),
                       Sweep(Advance(edges, scan), y + 1, maxy, c))

\* len(pointlist) < 3
TooFewForPolygon(pointlist) == Len(pointlist) < 3

\* polygon with width <= 0: the fill
PolygonFill(color, pointlist) ==
    IF ~ColorOk(color) THEN Outcome(<<>>, NoRect, "invalid color argument")
    ELSE IF TooFewForPolygon(pointlist) THEN Outcome(<<>>, NoRect, "ValueError")
    ELSE
      LET c     == _get_color(color)
          edges == EdgesFrom(pointlist, 1)
          xs    == {pointlist[i][1] : i \in 1 .. Len(pointlist)}
          minx  == SetMin(xs)
          maxx  == SetMax(xs)
          miny0 == SetMin({pointlist[1][2]} \cup {edges[i].lo : i \in 1 .. Len(edges)})
          maxy0 == SetMax({pointlist[1][2]} \cup {edges[i].hi : i \in 1 .. Len(edges)})
          miny  == Max(miny0, clip.y)
          maxy  == Min(maxy0 + 1, clip.y + clip.h)
          sweep == Sweep(edges, miny, maxy, c)
      IN  IF sweep.err # "none" THEN sweep
          ELSE Outcome(sweep.trace,
                       SomeRect(minx, miny, maxx - minx + 1, maxy - miny + 1), "none")

\* polygon that validates before it delegates
PolygonValidatesFirst(color, pointlist, width) ==
    IF ColorOk(color) /\ TooFewForPolygon(pointlist)
      THEN Outcome(<<>>, NoRect, "ValueError")
    ELSE IF width > 0 THEN lines(color, TRUE, pointlist, width)
    ELSE PolygonFill(color, pointlist)

polygon(color, pointlist, width) ==
    IF width > 0 THEN lines(color, TRUE, pointlist, width)
    ELSE PolygonFill(color, pointlist)

\* ------------------------------------------------------------- pixel buffer
\* pixels[pixel] = color, and what SDL_FillRect stores: the value replaces
\* the old one
StoreBlended(old, v) == (old + v) % 2
Store(old, v) == v

ApplyEv(buf, e) ==
    IF e.kind = "fill"
      THEN [i \in DOMAIN buf |->
              IF PixelOf(i, bpp) \in FillPixels(e.r, clip) THEN Store(buf[i], e.v)
                                                            ELSE buf[i]]
      ELSE IF e.idx \in DOMAIN buf THEN [buf EXCEPT ![e.idx] = Store(@, e.v)]
      ELSE buf

RECURSIVE ApplyTrace(_, _, _)
ApplyTrace(buf, t, i) ==
    IF i > Len(t) THEN buf ELSE ApplyTrace(ApplyEv(buf, t[i]), t, i + 1)

\* ------------------------------------------------------------------- inputs
Coords == (0 - 1) .. SurfSize
Points == Coords \X Coords
Widths == 0 .. MaxWidth
ColorArgs == {TupleColor, BadColor}
BppSet == {3, 4}

\* The vertices point lists are made of: two above the surface, two on its
\* bottom row and one inside
ListPoints ==
    {p \in Points : p[1] \in {0, SurfSize - 1} /\ p[2] \in {0 - 1, SurfSize - 1}}
        \cup {<<1, 0>>}
PointLists == UNION {[1 .. n -> ListPoints] : n \in 0 .. MaxPoints}

RectArgs == {Rect4(x, y, w, h) : x \in {0 - 1, 1}, y \in {0, 1}, w, h \in (0 - 1) .. SurfSize}

\* Clip rectangles: SDL keeps the clip rectangle inside the surface
ClipRects ==
    { Rect4(0, 0, SurfW, SurfH), Rect4(1, 1, SurfW - 2, SurfH - 2),
      Rect4(0, 1, SurfW, SurfH - 1), Rect4(1, 0, SurfW - 1, SurfH - 1),
      Rect4(1, 1, 0, 0) }

CallOf(op, color, r, closed, pts, width) ==
    [op |-> op, color |-> color, rect |-> r, closed |-> closed, pts |-> pts,
     width |-> width]

NoCall == CallOf("none", BadColor, Rect4(0, 0, 0, 0), FALSE, <<>>, 0)

\* ------------------------------------------------------------------ actions
Init ==
    /\ clip \in ClipRects
    /\ bpp \in BppSet
    /\ pixels = [i \in BufferIndexes(bpp) |-> 0]
    /\ locked = 0
    /\ phase = "idle"
    /\ call = NoCall
    /\ entry = pixels
    /\ trace = <<>>
    /\ ret = NoRect
    /\ err = "none"
    /\ cl = ClipIdle
    /\ argrect = NoCall.rect

\* The calls of operation op that the surface takes next, out of the set all:
\* any first call, and as second call the first one again
Calls(op, all) ==
    IF phase = "idle" THEN all
    ELSE IF phase = "once" /\ call.op = op THEN {call}
    ELSE {}

RectCalls ==
    {CallOf("rect", color, r, FALSE, <<>>, width) :
        color \in ColorArgs, r \in RectArgs, width \in Widths}

PolygonCalls ==
    {CallOf("polygon", color, Rect4(0, 0, 0, 0), FALSE, pointlist, width) :
        color \in ColorArgs, pointlist \in PointLists, width \in Widths}

LineCalls ==
    {CallOf("line", color, Rect4(0, 0, 0, 0), FALSE, <<start_pos, end_pos>>, width) :
        color \in ColorArgs, start_pos \in Points, end_pos \in Points, width \in Widths}

LinesCalls ==
    {CallOf("lines", color, Rect4(0, 0, 0, 0), closed, pointlist, width) :
        color \in ColorArgs, closed \in BOOLEAN, pointlist \in PointLists,
        width \in Widths}

\* A drawing call c with outcome o, on the surface as it is
Draw(c, o) ==
    /\ phase' = IF phase = "idle" THEN "once" ELSE "twice"
    /\ call' = c
    /\ entry' = pixels
    /\ trace' = o.trace
    /\ ret' = o.ret
    /\ err' = o.err
    /\ pixels' = ApplyTrace(pixels, o.trace, 1)
    /\ argrect' = IF c.op = "rect" /\ ColorOk(c.color) THEN CallerRect(c.rect)
                                                        ELSE c.rect
    /\ UNCHANGED <<clip, bpp, locked, cl>>

RectOp ==
    \E c \in Calls("rect", RectCalls) :
        Draw(c, rect(c.color, c.rect, c.width))

PolygonOp ==
    \E c \in Calls("polygon", PolygonCalls) :
        Draw(c, polygon(c.color, c.pts, c.width))

LineOp ==
    \E c \in Calls("line", LineCalls) :
        Draw(c, line(c.color, c.pts[1], c.pts[2], c.width))

LinesOp ==
    \E c \in Calls("lines", LinesCalls) :
        Draw(c, lines(c.color, c.closed, c.pts, c.width))

Next == RectOp \/ PolygonOp \/ LineOp \/ LinesOp

Spec == Init /\ [][Next]_vars

\* ----------------------------------------------------- _clip_line, stepwise
\* Inclusive clip boxes <<left, right, top, bottom>> inside the surface
ClipBoxes ==
    {b \in (0 .. SurfW - 1) \X (0 .. SurfW - 1) \X (0 .. SurfH - 1) \X (0 .. SurfH - 1) :
        b[1] <= b[2] /\ b[3] <= b[4]}

ClipInit ==
    /\ cl \in {ClipState(p[1], p[2], q[1], q[2], b[1], b[2], b[3], b[4]) :
                 p \in Points, q \in Points, b \in ClipBoxes}
    /\ clip = Rect4(0, 0, SurfW, SurfH)
    /\ bpp = 4
    /\ pixels = [i \in BufferIndexes(bpp) |-> 0]
    /\ locked = 0
    /\ phase = "idle"
    /\ call = NoCall
    /\ entry = pixels
    /\ trace = <<>>
    /\ ret = NoRect
    /\ err = "none"
    /\ argrect = NoCall.rect

\* One iteration of the while loop of _clip_line
ClipStep ==
    /\ cl.pc = "loop"
    /\ cl' = ClipIter(cl)
    /\ UNCHANGED <<clip, bpp, pixels, locked, phase, call, entry, trace, ret, err,
                   argrect>>

\* The loop runs on: the interpreter executes the next iteration
SpecClip == ClipInit /\ [][ClipStep]_vars /\ WF_vars(ClipStep)

\* =================================================================== claims
InClip(p) == InRect(p[1], p[2], clip)

\* The pixels an access writes, and those the whole call wrote
Written(e) == IF e.kind = "fill" THEN FillPixels(e.r, clip) ELSE {PixelOf(e.idx, bpp)}
WrittenPixels == UNION {Written(trace[i]) : i \in 1 .. Len(trace)}

Validation == {"invalid color argument", "ValueError", "NotImplementedError"}

\* C1: every pixel a call writes lies inside the clip rectangle; every raw
\* index of the thin-line walk addresses a pixel of the buffer inside it, and
\* every scanline row a polygon fill fills is a row of it.
C1_WritesInsideClip ==
    \A i \in 1 .. Len(trace) :
        LET e == trace[i]
        IN  /\ \A p \in Written(e) : InClip(p)
            /\ e.kind = "raw" => e.idx \in BufferIndexes(bpp)
            /\ (call.op = "polygon" /\ call.width = 0)
                  => (clip.y <= e.r.y /\ e.r.y < clip.y + clip.h)

\* C1 witness: a thin line with both endpoints outside the clip rectangle
\* was clipped and walked
C1_ClippedWalk ==
    /\ call.op = "line" /\ call.width = 1
    /\ ~InClip(call.pts[1]) /\ ~InClip(call.pts[2])
    /\ Len(trace) > 1 /\ trace[1].kind = "raw"

\* C2: a call that writes a pixel returns a rectangle containing every pixel
\* it wrote.
C2_ReturnBoundsWrites ==
    WrittenPixels # {} =>
        /\ ret.some
        /\ \A p \in WrittenPixels : InRect(p[1], p[2], ret)

\* The bounding box of a point list misses the clip rectangle
FullyClipped(pts) ==
    LET xs == {pts[i][1] : i \in 1 .. Len(pts)}
        ys == {pts[i][2] : i \in 1 .. Len(pts)}
    IN  \/ \A y \in ys : y < clip.y
        \/ \A y \in ys : y >= clip.y + clip.h
        \/ \A x \in xs : x < clip.x
        \/ \A x \in xs : x >= clip.x + clip.w

\* C3: a polygon fill that is fully clipped away returns no rect or an empty
\* rect with non-negative width and height.
C3_ClippedFillReturnsNothing ==
    (/\ call.op = "polygon" /\ call.width = 0 /\ Len(call.pts) >= 3
     /\ err = "none" /\ FullyClipped(call.pts) /\ WrittenPixels = {})
    => \/ ~ret.some
       \/ (ret.w = 0 \/ ret.h = 0) /\ ret.w >= 0 /\ ret.h >= 0

\* C4 as stated: with a valid color, lines with fewer than 2 points and
\* polygon with fewer than 3 points raise, whatever the width.
C4_TooFewAlwaysRaises ==
    (/\ ColorOk(call.color)
     /\ \/ call.op = "lines" /\ Len(call.pts) < 2
        \/ call.op = "polygon" /\ Len(call.pts) < 3)
    => err = "ValueError"

\* C4 amended: with a valid color, lines with fewer than 2 points raises
\* exactly when width >= 1, and polygon with fewer than 3 points raises
\* exactly when width <= 0 or there are fewer than 2 points.
C4_TooFewRaises ==
    ColorOk(call.color) =>
        /\ (call.op = "lines" /\ Len(call.pts) < 2)
              => (err = "ValueError" <=> call.width >= 1)
        /\ (call.op = "polygon" /\ Len(call.pts) < 3)
              => (err = "ValueError" <=> (call.width <= 0 \/ Len(call.pts) < 2))

\* C4 witness: lines on a single point with a positive width raised
C4_OnePointRaised ==
    /\ call.op = "lines" /\ Len(call.pts) = 1 /\ call.width >= 1
    /\ ColorOk(call.color) /\ err = "ValueError"

\* C5: a call that ends in a validation error has left the pixel buffer as
\* it was at call entry.
C5_NoDrawBeforeError == err \in Validation => pixels = entry

\* C6: polygon with width > 0 leaves the buffer as lines with closed=True
\* leaves it, and raises exactly what that call raises.
C6_StrokeIsClosedLines ==
    (call.op = "polygon" /\ call.width > 0) =>
        LET o == lines(call.color, TRUE, call.pts, call.width)
        IN  /\ pixels = ApplyTrace(entry, o.trace, 1)
            /\ err = o.err

\* C6 witness: a stroked polygon of two points drew, with no error
C6_TwoPointStroke ==
    /\ call.op = "polygon" /\ call.width > 0 /\ Len(call.pts) = 2
    /\ err = "none" /\ pixels # entry

\* C7: every raw buffer access is made with the lock held, no fill is called
\* with it held, and it is released when the call ends.
C7_LockDiscipline ==
    /\ \A i \in 1 .. Len(trace) :
          /\ trace[i].kind = "raw" => trace[i].held > 0
          /\ trace[i].kind = "fill" => trace[i].held = 0
    /\ locked = 0

\* C8: the second of two equal calls in a row leaves the buffer as the first
\* left it.
C8_TwiceIsOnce == phase = "twice" => pixels = entry

\* C8 witness: a polygon fill that drew was applied twice
C8_FillTwice ==
    /\ phase = "twice" /\ call.op = "polygon" /\ call.width = 0
    /\ \E i \in DOMAIN pixels : pixels[i] # 0

\* The pixels of the rectangle (x, y, w, h) that lie in the clip rectangle
Region(x, y, w, h) ==
    {p \in (x .. x + w - 1) \X (y .. y + h - 1) : InClip(p)}

\* C9: a line with equal x at both ends and width >= 1 makes one fill, of
\* (x1 - floor(width/2), min(y1, y2), width, |y2 - y1|), and writes those
\* pixels only; a line with width < 1 writes nothing and returns nothing.
C9_VerticalLine ==
    call.op = "line" =>
        LET x1 == call.pts[1][1]
            y1 == call.pts[1][2]
            y2 == call.pts[2][2]
            x  == x1 - (call.width \div 2)
            y  == Min(y1, y2)
            h  == Abs(y2 - y1)
        IN  /\ (call.width >= 1 /\ ColorOk(call.color) /\ x1 = call.pts[2][1]) =>
                 /\ Len(trace) = 1 /\ trace[1].kind = "fill"
                 /\ trace[1].r = Rect4(x, y, call.width, h)
                 /\ err = "none"
                 /\ \A i \in DOMAIN pixels :
                       pixels[i] = IF PixelOf(i, bpp) \in Region(x, y, call.width, h)
                                     THEN 1 ELSE entry[i]
            /\ call.width < 1 => (trace = <<>> /\ ~ret.some /\ pixels = entry)

\* C9 witness: a vertical line of width 2 filled two columns
C9_WideVertical ==
    /\ call.op = "line" /\ call.width = 2 /\ call.pts[1][1] = call.pts[2][1]
    /\ Cardinality(WrittenPixels) >= 4

\* C10: _clip_line ends, with a segment whose endpoints both have outcode
\* zero or with the all-None sentinel, and never with an exception.
C10_ClipLineTerminates ==
    /\ <>(cl.pc \in {"segment", "none"})
    /\ [](cl.pc = "segment" =>
            /\ _endpoint_code(cl.x1, cl.y1, cl.left, cl.right, cl.top, cl.bottom) = 0
            /\ _endpoint_code(cl.x2, cl.y2, cl.left, cl.right, cl.top, cl.bottom) = 0)

\* C10 witness: a segment whose first endpoint has two outcode bits set was
\* clipped to a segment, that endpoint moved
C10_CornerClipped ==
    /\ cl.pc = "segment"
    /\ _endpoint_code(cl.arg[1], cl.arg[2], cl.left, cl.right, cl.top, cl.bottom)
          \in {_LEFT + _TOP, _LEFT + _BOTTOM, _RIGHT + _TOP, _RIGHT + _BOTTOM}
    /\ <<cl.x1, cl.y1>> # <<cl.arg[1], cl.arg[2]>>
    /\ <<cl.x2, cl.y2>> # <<cl.arg[1], cl.arg[2]>>

\* The sides of the clip box of cl that the point <<x, y>> lies beyond
SidesBeyond(x, y) ==
    {side \in {"left", "right", "top", "bottom"} :
        \/ side = "left" /\ x < cl.left
        \/ side = "right" /\ x > cl.right
        \/ side = "top" /\ y < cl.top
        \/ side = "bottom" /\ y > cl.bottom}

\* The point <<x, y>> lies on the side of the clip box of cl
OnSide(x, y, side) ==
    \/ side = "left" /\ x = cl.left
    \/ side = "right" /\ x = cl.right
    \/ side = "top" /\ y = cl.top
    \/ side = "bottom" /\ y = cl.bottom

ArgFirst == <<cl.arg[1], cl.arg[2]>>
ArgSecond == <<cl.arg[3], cl.arg[4]>>
OutFirst == <<cl.x1, cl.y1>>
OutSecond == <<cl.x2, cl.y2>>

\* The segment passed in has one endpoint inside the box and the other
\* beyond exactly one side of it
CrossesOneSide ==
    \/ /\ SidesBeyond(ArgFirst[1], ArgFirst[2]) = {}
       /\ Cardinality(SidesBeyond(ArgSecond[1], ArgSecond[2])) = 1
    \/ /\ SidesBeyond(ArgSecond[1], ArgSecond[2]) = {}
       /\ Cardinality(SidesBeyond(ArgFirst[1], ArgFirst[2])) = 1

BothInside ==
    SidesBeyond(ArgFirst[1], ArgFirst[2]) = {} /\ SidesBeyond(ArgSecond[1], ArgSecond[2]) = {}

IsFill == call.op = "polygon" /\ call.width = 0 /\ Len(call.pts) >= 3 /\ ColorOk(call.color)

\* The scanlines the sweep of the last polygon fill visits
SweepRows ==
    LET ys == {call.pts[i][2] : i \in 1 .. Len(call.pts)}
    IN  Max(SetMin(ys), clip.y) .. (Min(SetMax(ys) + 1, clip.y + clip.h) - 1)

\* z-component of (q - p) x (r - q)
Cross(p, q, r) == (q[1] - p[1]) * (r[2] - q[2]) - (q[2] - p[2]) * (r[1] - q[1])

\* The point list turns the same way at every vertex: a simple convex polygon
Convex(pts) ==
    LET n == Len(pts)
        turn(i) == Cross(pts[i], pts[(i % n) + 1], pts[((i + 1) % n) + 1])
    IN  (\A i \in 1 .. n : turn(i) > 0) \/ (\A i \in 1 .. n : turn(i) < 0)

\* C12: in a polygon fill the number of active edges is even on every
\* scanline the sweep visits, and the assertion of the scanline loop never
\* fails (checked for every point list, convex or not).
C12_EvenActiveEdges ==
    IsFill =>
        /\ err = "none"
        /\ \A y \in SweepRows :
              Len(ScanEdges(EdgesFrom(call.pts, 1), y, <<>>, 1)) % 2 = 0

\* C12 witness: a convex polygon with a vertex strictly between its top and
\* bottom rows was filled over all its rows, the bottom row included
C12_ConvexThroughVertex ==
    /\ IsFill /\ Convex(call.pts) /\ err = "none"
    /\ LET ys == {call.pts[i][2] : i \in 1 .. Len(call.pts)}
       IN  /\ \E y \in ys : SetMin(ys) < y /\ y < SetMax(ys) /\ y \in SweepRows
           /\ SetMax(ys) \in SweepRows
    /\ WrittenPixels # {}

\* The rectangles of the fills the last call made, in order
FillRects == [i \in 1 .. Len(trace) |-> trace[i].r]

ExactX(e, y) == TruncDiv(e.xn + (y - e.lo) * e.dx, e.dy)

\* C14: every span a polygon fill fills on a scanline y runs between the
\* exact intercepts with y of two edges active on y, whatever the clip
\* rectangle is.
C14_ExactIntercepts ==
    IsFill =>
        LET edges == EdgesFrom(call.pts, 1)
        IN  \A i \in 1 .. Len(trace) :
               LET f == trace[i].r
                   active == {j \in 1 .. Len(edges) : EdgeActive(edges[j], f.y)}
               IN  \E a, b \in active :
                      /\ a # b
                      /\ f.x = ExactX(edges[a], f.y)
                      /\ f.x + f.w = ExactX(edges[b], f.y)

\* The segment _clip_line returns for the last call's endpoints
ClippedCall ==
    _clip_line(call.pts[1][1], call.pts[1][2], call.pts[2][1], call.pts[2][2],
               clip.x, ClipRight(clip), clip.y, ClipBottom(clip))

\* The last call was a thin general line that reached the clipper
IsThinGeneral ==
    /\ call.op = "line" /\ call.width = 1 /\ ColorOk(call.color) /\ bpp # 3
    /\ call.pts[1][1] # call.pts[2][1] /\ call.pts[1][2] # call.pts[2][2]

\* C15: a thin general line that clipping does not reject writes the first
\* clipped endpoint first and the second clipped endpoint last, whatever its
\* slope is.
C15_WalkEndsAtEndpoints ==
    (IsThinGeneral /\ ClippedCall.pc = "segment") =>
        /\ Len(trace) >= 1
        /\ trace[1].kind = "raw" /\ trace[Len(trace)].kind = "raw"
        /\ PixelOf(trace[1].idx, bpp) = <<ClippedCall.x1, ClippedCall.y1>>
        /\ PixelOf(trace[Len(trace)].idx, bpp) = <<ClippedCall.x2, ClippedCall.y2>>

====
